---- MODULE Spec2Model ----
(***************************************************************************)
(* QueryQuest block builder: the block-connection grammar, the sequence of *)
(* placed blocks kept by SQLBlockBuilder / CanvasManager, and the SQL text *)
(* that SQLGenerator renders from it.                                      *)
(***************************************************************************)
EXTENDS Integers, Sequences, FiniteSets, TLC

(***************************************************************************)
(* Bounds of the model.                                                    *)
(***************************************************************************)
\* a drop is placed only while the id counter is below MaxId, so a sequence
\* holds at most MaxId blocks between two clears
MaxId == 5
\* longest block sequence drawn as an input of the pure functions (SpecFn)
MaxFnLen == 3
\* longest sequence whose block contents are edited (SpecEdit)
MaxEditLen == 8
\* most function blocks in such a sequence
MaxFns == 1
\* runQuery calls of the block builder awaiting their fetch
MaxInFlight == 2
\* queries sent from the text editor
MaxQueries == 4

(***************************************************************************)
(* config.js: the Grammar Table and the closed vocabulary.                 *)
(***************************************************************************)
KeywordTypes ==
    {"SELECT", "DISTINCT", "FROM", "WHERE", "JOIN", "ON", "GROUP BY",
     "ORDER BY", "LIMIT", "AND", "OR", "ASC", "DESC"}
OperatorTypes == {"=", "!=", ">", "<", ">=", "<=", "LIKE", "IN"}
FunctionTypes == {"COUNT()", "SUM()", "AVG()", "MIN()", "MAX()"}
TableTypes == {"employees", "departments"}
ColumnTypes == {"*", "id", "name", "department", "salary", "hire_date", "location"}
ValueTypes == {"number", "text"}

BLOCK_CATEGORIES ==
    [t \in KeywordTypes \cup OperatorTypes \cup FunctionTypes \cup TableTypes
           \cup ColumnTypes \cup ValueTypes |->
        IF t \in KeywordTypes THEN t
        ELSE IF t \in OperatorTypes THEN "OPERATOR"
        ELSE IF t \in FunctionTypes THEN "FUNCTION"
        ELSE IF t \in TableTypes THEN "TABLE"
        ELSE IF t \in ColumnTypes THEN "COLUMN"
        ELSE "VALUE"]

VALID_CONNECTIONS ==
    [k \in {"START", "SELECT", "DISTINCT", "ALL", "COLUMN", "FUNCTION", "COMMA",
            "FROM", "TABLE", "JOIN", "ON", "WHERE", "CONDITION_COLUMN",
            "OPERATOR", "VALUE", "AND", "OR", "GROUP BY", "GROUP_COLUMN",
            "ORDER BY", "ORDER_COLUMN", "ASC", "DESC", "LIMIT", "NUMBER"} |->
        CASE k = "START" -> {"SELECT"}
          [] k = "SELECT" -> {"DISTINCT", "ALL", "COLUMN", "FUNCTION"}
          [] k = "DISTINCT" -> {"COLUMN", "FUNCTION"}
          [] k = "ALL" -> {"COLUMN", "FUNCTION"}
          [] k = "COLUMN" -> {"COLUMN", "FROM", "COMMA", "FUNCTION"}
          [] k = "FUNCTION" -> {"COLUMN", "FROM", "COMMA", "FUNCTION"}
          [] k = "COMMA" -> {"COLUMN", "FUNCTION"}
          [] k = "FROM" -> {"TABLE"}
          [] k = "TABLE" -> {"WHERE", "JOIN", "GROUP BY", "ORDER BY", "LIMIT", "END"}
          [] k = "JOIN" -> {"TABLE"}
          [] k = "ON" -> {"COLUMN"}
          [] k = "WHERE" -> {"COLUMN", "FUNCTION"}
          [] k = "CONDITION_COLUMN" -> {"OPERATOR"}
          [] k = "OPERATOR" -> {"VALUE", "COLUMN"}
          [] k = "VALUE" -> {"AND", "OR", "GROUP BY", "ORDER BY", "LIMIT", "END"}
          [] k = "AND" -> {"COLUMN"}
          [] k = "OR" -> {"COLUMN"}
          [] k = "GROUP BY" -> {"COLUMN"}
          [] k = "GROUP_COLUMN" -> {"COLUMN", "ORDER BY", "LIMIT", "END", "COMMA"}
          [] k = "ORDER BY" -> {"COLUMN"}
          [] k = "ORDER_COLUMN" -> {"ASC", "DESC", "COLUMN", "LIMIT", "END", "COMMA"}
          [] k = "ASC" -> {"COLUMN", "LIMIT", "END", "COMMA"}
          [] k = "DESC" -> {"COLUMN", "LIMIT", "END", "COMMA"}
          [] k = "LIMIT" -> {"NUMBER"}
          [] k = "NUMBER" -> {"END"}]

NEW_LINE_KEYWORDS ==
    {"FROM", "WHERE", "JOIN", "ON", "GROUP BY", "ORDER BY", "LIMIT", "AND", "OR"}

SQL_KEYWORDS ==
    {"SELECT", "FROM", "WHERE", "JOIN", "ON", "GROUP BY", "ORDER BY", "LIMIT",
     "AND", "OR"}

\* the text shown while no query has been assembled
Sentinel == "-- Your query will appear here"

(***************************************************************************)
(* utils.js                                                                *)
(***************************************************************************)
\* variant: a type absent from the map defaults to a legal category
getBlockCategory_DefaultColumn(blockType) ==
    IF blockType \in DOMAIN BLOCK_CATEGORIES
    THEN BLOCK_CATEGORIES[blockType]
    ELSE "COLUMN"

getBlockCategory(blockType) ==
    IF blockType \in DOMAIN BLOCK_CATEGORIES
    THEN BLOCK_CATEGORIES[blockType]
    ELSE "UNKNOWN"

isColumn(blockType) == getBlockCategory(blockType) = "COLUMN"

isFunction(blockType) == getBlockCategory(blockType) = "FUNCTION"

\* functionType.replace('()', ''): every function type of the vocabulary is
\* its name followed by "()"; any other string has no "()" to strip here.
extractFunctionName(functionType) ==
    CASE functionType = "COUNT()" -> "COUNT"
      [] functionType = "SUM()" -> "SUM"
      [] functionType = "AVG()" -> "AVG"
      [] functionType = "MIN()" -> "MIN"
      [] functionType = "MAX()" -> "MAX"
      [] OTHER -> functionType

(***************************************************************************)
(* A placed block: builder.blocks holds {id, type, class, element, params}.*)
(* Of the DOM element the model keeps what the core reads: the value of    *)
(* its input field (number and text blocks) and the state of its parameter *)
(* slot (function blocks).                                                 *)
(***************************************************************************)
NoSlot == "none"
EmptySlot == "empty"
FilledSlot == "filled"

\* findLastKeyword returns null when no keyword precedes
NullKeyword == "<null>"

(***************************************************************************)
(* sql-generator.js                                                        *)
(***************************************************************************)
CommaPart == [comma |-> TRUE, text |-> ","]

TextPart(s) == [comma |-> FALSE, text |-> s]

\* variant: a comma block before a list item counts as a list item
needsAutoComma_CommaIsItem(block, prevBlock) ==
    LET currentCategory == getBlockCategory(block.type)
        prevCategory == getBlockCategory(prevBlock.type)
    IN /\ currentCategory = "COLUMN" \/ currentCategory = "FUNCTION"
       /\ prevCategory = "COLUMN" \/ prevCategory = "FUNCTION"
             \/ prevBlock.type = ","

\* variant: the block before is not looked at
needsAutoComma_IgnorePrev(block, prevBlock) ==
    LET currentCategory == getBlockCategory(block.type)
    IN currentCategory = "COLUMN" \/ currentCategory = "FUNCTION"

needsAutoComma(block, prevBlock) ==
    LET currentCategory == getBlockCategory(block.type)
        prevCategory == getBlockCategory(prevBlock.type)
        isCurrentColumnOrFunction ==
            currentCategory = "COLUMN" \/ currentCategory = "FUNCTION"
        isPrevColumnOrFunction ==
            prevCategory = "COLUMN" \/ prevCategory = "FUNCTION"
        prevIsNotComma == prevBlock.type # ","
    IN isCurrentColumnOrFunction /\ isPrevColumnOrFunction /\ prevIsNotComma

processNumberBlock(block) ==
    IF block.input = "" THEN "?" ELSE block.input

\* values of the input fields that start with a quote character
QuotedInputs == {"'x'", "\"y\""}

\* variant: every non-empty value is wrapped in single quotes
processTextBlock_AlwaysQuote(block) ==
    IF block.input = "" THEN "'?'" ELSE "'" \o block.input \o "'"

processTextBlock(block) ==
    IF block.input = "" THEN "'?'"
    ELSE IF block.input \notin QuotedInputs THEN "'" \o block.input \o "'"
    ELSE block.input

RECURSIVE joinParams(_)
joinParams(params) ==
    IF Len(params) = 0 THEN ""
    ELSE IF Len(params) = 1 THEN params[1]
    ELSE params[1] \o ", " \o joinParams(Tail(params))

\* variant: the bound parameter is left out of the parentheses
processFunctionBlock_NoParams(type, params) ==
    extractFunctionName(type) \o "()"

processFunctionBlock(type, params) ==
    LET functionName == extractFunctionName(type)
    IN IF Len(params) > 0
       THEN functionName \o "(" \o joinParams(params) \o ")"
       ELSE functionName \o "()"

processBlock(block) ==
    IF block.type = "number" THEN TextPart(processNumberBlock(block))
    ELSE IF block.type = "text" THEN TextPart(processTextBlock(block))
    ELSE IF block.type = "," THEN CommaPart
    ELSE IF isFunction(block.type)
         THEN TextPart(processFunctionBlock(block.type, block.params))
    ELSE TextPart(block.type)

RECURSIVE collectPartsUpTo(_, _)
collectPartsUpTo(blocks, n) ==
    IF n = 0 THEN <<>>
    ELSE LET before == collectPartsUpTo(blocks, n - 1)
             auto == IF n > 1 /\ needsAutoComma(blocks[n], blocks[n - 1])
                     THEN <<CommaPart>> ELSE <<>>
         IN before \o auto \o <<processBlock(blocks[n])>>

collectParts(blocks) == collectPartsUpTo(blocks, Len(blocks))

\* variant: a comma part is joined like any other part, after a space
formatPart_SpaceBeforeComma(parts, i) ==
    LET part == parts[i]
        prevWasComma == i > 1 /\ parts[i - 1].comma
        prevIsOpen == i > 1 /\ ~parts[i - 1].comma /\ parts[i - 1].text = "("
        needsSpace == i > 1 /\ part.text \notin {"(", ")"} /\ ~prevIsOpen
                        /\ ~prevWasComma
    IN IF part.text \in NEW_LINE_KEYWORDS /\ i > 1 THEN "\n" \o part.text
       ELSE IF prevWasComma \/ needsSpace THEN " " \o part.text
       ELSE part.text

\* variant: a clause keyword gets its newline even as the first part
formatPart_NewLineAlways(parts, i) ==
    LET part == parts[i]
        prevWasComma == i > 1 /\ parts[i - 1].comma
        prevIsOpen == i > 1 /\ ~parts[i - 1].comma /\ parts[i - 1].text = "("
        needsSpace == i > 1 /\ part.text \notin {"(", ")"} /\ ~prevIsOpen
                        /\ ~prevWasComma
    IN IF part.comma THEN part.text
       ELSE IF part.text \in NEW_LINE_KEYWORDS THEN "\n" \o part.text
       ELSE IF prevWasComma \/ needsSpace THEN " " \o part.text
       ELSE part.text

\* formatPart(part, prevPart, index): i is the 1-based position, so the
\* code's index is i - 1 and prevPart exists iff i > 1.
formatPart(parts, i) ==
    LET part == parts[i]
        prevWasComma == i > 1 /\ parts[i - 1].comma
        prevIsOpen == i > 1 /\ ~parts[i - 1].comma /\ parts[i - 1].text = "("
        needsNewLine == part.text \in NEW_LINE_KEYWORDS
        needsSpace == i > 1 /\ part.text \notin {"(", ")"} /\ ~prevIsOpen
                        /\ ~prevWasComma
    IN IF part.comma THEN part.text
       ELSE IF needsNewLine /\ i > 1 THEN "\n" \o part.text
       ELSE IF prevWasComma THEN " " \o part.text
       ELSE IF needsSpace THEN " " \o part.text
       ELSE part.text

RECURSIVE formatUpTo(_, _)
formatUpTo(parts, n) ==
    IF n = 0 THEN "" ELSE formatUpTo(parts, n - 1) \o formatPart(parts, n)

formatSQL(parts) ==
    LET sql == formatUpTo(parts, Len(parts))
    IN IF sql = "" THEN Sentinel ELSE sql

generate(blocks) ==
    IF Len(blocks) = 0 THEN Sentinel ELSE formatSQL(collectParts(blocks))

(***************************************************************************)
(* block-builder.js, the monolith: generateSQL of its second class. It     *)
(* nests the column that follows a function block into the parentheses     *)
(* and marks that column block as processed; processed is the set of       *)
(* positions whose block carries the mark.                                 *)
(***************************************************************************)
RECURSIVE legacyCollectFrom(_, _, _, _)
legacyCollectFrom(blocks, i, parts, processed) ==
    IF i > Len(blocks) THEN [parts |-> parts, processed |-> processed]
    ELSE IF i \in processed
    THEN legacyCollectFrom(blocks, i + 1, parts, processed \ {i})
    ELSE LET type == blocks[i].type
             currentCategory == getBlockCategory(type)
             isFunctionWithColumn ==
                 /\ currentCategory = "FUNCTION"
                 /\ i < Len(blocks)
                 /\ getBlockCategory(blocks[i + 1].type) = "COLUMN"
             needsComma ==
                 /\ i > 1
                 /\ currentCategory \in {"COLUMN", "FUNCTION"}
                 /\ getBlockCategory(blocks[i - 1].type) \in {"COLUMN", "FUNCTION"}
                 /\ blocks[i - 1].type # ","
             auto == IF needsComma THEN <<CommaPart>> ELSE <<>>
             literal == type \in {"number", "text", ","}
             part == IF type = "number" THEN TextPart(processNumberBlock(blocks[i]))
                     ELSE IF type = "text" THEN TextPart(processTextBlock(blocks[i]))
                     ELSE IF type = "," THEN CommaPart
                     ELSE IF isFunctionWithColumn
                     THEN TextPart(extractFunctionName(type) \o "("
                                      \o blocks[i + 1].type \o ")")
                     ELSE TextPart(type)
             marked == IF ~literal /\ isFunctionWithColumn
                       THEN processed \cup {i + 1} ELSE processed
         IN legacyCollectFrom(blocks, i + 1, parts \o auto \o <<part>>, marked)

\* the text the monolith displays and the marks it leaves on the blocks
legacyGenerateSQL(blocks, processed) ==
    IF Len(blocks) = 0 THEN [text |-> Sentinel, processed |-> processed]
    ELSE LET r == legacyCollectFrom(blocks, 1, <<>>, processed)
         IN [text |-> formatSQL(r.parts), processed |-> r.processed]

\* variant: the query counts as complete only while a table is its last block
isQueryComplete_EndsWithTable(blocks) ==
    IF Len(blocks) = 0 THEN FALSE
    ELSE /\ \E i \in 1..Len(blocks) : blocks[i].type = "SELECT"
         /\ \E i \in 1..Len(blocks) : blocks[i].type = "FROM"
         /\ getBlockCategory(blocks[Len(blocks)].type) = "TABLE"
         /\ \E i \in 1..Len(blocks) :
               getBlockCategory(blocks[i].type) \in {"COLUMN", "FUNCTION"}

\* variant: the table test compares the type, not the category
isQueryComplete_TableByType(blocks) ==
    IF Len(blocks) = 0 THEN FALSE
    ELSE /\ \E i \in 1..Len(blocks) : blocks[i].type = "SELECT"
         /\ \E i \in 1..Len(blocks) : blocks[i].type = "FROM"
         /\ \E i \in 1..Len(blocks) : blocks[i].type = "TABLE"
         /\ \E i \in 1..Len(blocks) :
               getBlockCategory(blocks[i].type) \in {"COLUMN", "FUNCTION"}

\* variant: a function block does not count as a selected item
isQueryComplete_ColumnOnly(blocks) ==
    IF Len(blocks) = 0 THEN FALSE
    ELSE /\ \E i \in 1..Len(blocks) : blocks[i].type = "SELECT"
         /\ \E i \in 1..Len(blocks) : blocks[i].type = "FROM"
         /\ \E i \in 1..Len(blocks) : getBlockCategory(blocks[i].type) = "TABLE"
         /\ \E i \in 1..Len(blocks) : getBlockCategory(blocks[i].type) = "COLUMN"

\* variant: a function with an empty parameter slot or a literal with an
\* empty field keeps the query incomplete
isQueryComplete_ContentsRequired(blocks) ==
    /\ Len(blocks) # 0
    /\ \E i \in 1..Len(blocks) : blocks[i].type = "SELECT"
    /\ \E i \in 1..Len(blocks) : blocks[i].type = "FROM"
    /\ \E i \in 1..Len(blocks) : getBlockCategory(blocks[i].type) = "TABLE"
    /\ \E i \in 1..Len(blocks) :
          getBlockCategory(blocks[i].type) \in {"COLUMN", "FUNCTION"}
    /\ \A i \in 1..Len(blocks) :
          /\ blocks[i].slot # EmptySlot
          /\ blocks[i].type \in {"number", "text"} => blocks[i].input # ""

isQueryComplete(blocks) ==
    IF Len(blocks) = 0 THEN FALSE
    ELSE LET hasSelect == \E i \in 1..Len(blocks) : blocks[i].type = "SELECT"
             hasFrom == \E i \in 1..Len(blocks) : blocks[i].type = "FROM"
             hasTable == \E i \in 1..Len(blocks) :
                            getBlockCategory(blocks[i].type) = "TABLE"
             hasColumn == \E i \in 1..Len(blocks) :
                            \/ getBlockCategory(blocks[i].type) = "COLUMN"
                            \/ getBlockCategory(blocks[i].type) = "FUNCTION"
         IN hasSelect /\ hasFrom /\ hasTable /\ hasColumn

RECURSIVE findLastKeywordFrom(_, _)
findLastKeywordFrom(blocks, i) ==
    IF i < 1 THEN NullKeyword
    ELSE IF blocks[i].type \in SQL_KEYWORDS THEN blocks[i].type
    ELSE findLastKeywordFrom(blocks, i - 1)

\* variant: the scan runs forward and returns the first keyword
findLastKeyword_First(blocks) ==
    LET idx == {i \in 1..Len(blocks) : blocks[i].type \in SQL_KEYWORDS}
    IN IF idx = {} THEN NullKeyword
       ELSE blocks[CHOOSE i \in idx : \A j \in idx : i <= j].type

findLastKeyword(blocks) == findLastKeywordFrom(blocks, Len(blocks))

\* variant: a last block of no known category counts as the start
getLastBlockCategory_UnknownIsStart(blocks) ==
    IF Len(blocks) = 0 THEN "START"
    ELSE LET type == blocks[Len(blocks)].type
             category == getBlockCategory(type)
             lastKeyword == findLastKeyword(SubSeq(blocks, 1, Len(blocks) - 1))
         IN IF category = "UNKNOWN" THEN "START"
            ELSE IF category = "COLUMN" /\ lastKeyword \in {"WHERE", "AND", "OR"}
            THEN "CONDITION_COLUMN"
            ELSE IF category = "COLUMN" /\ lastKeyword = "GROUP BY"
            THEN "GROUP_COLUMN"
            ELSE IF category = "COLUMN" /\ lastKeyword = "ORDER BY"
            THEN "ORDER_COLUMN"
            ELSE category

getLastBlockCategory(blocks) ==
    IF Len(blocks) = 0 THEN "START"
    ELSE LET type == blocks[Len(blocks)].type
             category == getBlockCategory(type)
             prevBlocks == SubSeq(blocks, 1, Len(blocks) - 1)
             lastKeyword == findLastKeyword(prevBlocks)
         IN IF category = "COLUMN" /\ lastKeyword \in {"WHERE", "AND", "OR"}
            THEN "CONDITION_COLUMN"
            ELSE IF category = "COLUMN" /\ lastKeyword = "GROUP BY"
            THEN "GROUP_COLUMN"
            ELSE IF category = "COLUMN" /\ lastKeyword = "ORDER BY"
            THEN "ORDER_COLUMN"
            ELSE IF category = "VALUE" THEN "VALUE"
            ELSE category

\* VALID_CONNECTIONS[lastCategory] || []
validNextOf(lastCategory) ==
    IF lastCategory \in DOMAIN VALID_CONNECTIONS
    THEN VALID_CONNECTIONS[lastCategory]
    ELSE {}

\* variant: only the category of the candidate is looked up in the table
canConnect_CategoryOnly(blocks, newBlockType) ==
    LET lastCategory == getLastBlockCategory(blocks)
        newCategory == getBlockCategory(newBlockType)
        validNext == validNextOf(lastCategory)
    IN IF newCategory \in validNext THEN TRUE
       ELSE IF newBlockType = "," \/ newCategory = "COMMA"
       THEN lastCategory \in {"COLUMN", "FUNCTION", "GROUP_COLUMN", "ORDER_COLUMN"}
       ELSE FALSE

\* variant: the comma is looked up in the table as the category COMMA
canConnect_CommaFromTable(blocks, newBlockType) ==
    LET lastCategory == getLastBlockCategory(blocks)
        newCategory == IF newBlockType = "," THEN "COMMA"
                       ELSE getBlockCategory(newBlockType)
        validNext == validNextOf(lastCategory)
    IN newCategory \in validNext \/ newBlockType \in validNext

canConnect(blocks, newBlockType) ==
    LET lastCategory == getLastBlockCategory(blocks)
        newCategory == getBlockCategory(newBlockType)
        validNext == validNextOf(lastCategory)
    IN IF newCategory \in validNext \/ newBlockType \in validNext THEN TRUE
       ELSE IF newBlockType = "," \/ newCategory = "COMMA"
       THEN lastCategory \in {"COLUMN", "FUNCTION", "GROUP_COLUMN", "ORDER_COLUMN"}
       ELSE FALSE

(***************************************************************************)
(* State of one SQLBlockBuilder.                                           *)
(***************************************************************************)
VARIABLES
    blocks,           \* builder.blocks, in canvas order
    blockIdCounter,   \* builder.blockIdCounter
    output,           \* builder.output.textContent, the displayed SQL
    runDisabled,      \* disabled flag of the run button
    available,        \* menu block types marked block--available
    connectionError,  \* block type of the last showConnectionError, or NoError
    dragState,        \* drag class of the canvas: none, drag-valid, drag-invalid
    requests,         \* sql of the runQuery calls awaiting their fetch
    toast,            \* message of the last showToast of runQuery
    fetchResult,      \* how the fetch of the last resumed runQuery settled
    uncaught,         \* a runQuery call ended in an exception nobody caught
    isAnimating,      \* app.js state.isAnimating
    calls,            \* app.js runQuery calls awaiting api.executeQuery
    timers,           \* app.js animateCardsOut timers pending, oldest first
    issued,           \* app.js: number of queries sent to the backend
    shown,            \* app.js: number of the query whose results are shown
    cards             \* app.js: the results container holds result cards

builderVars == <<blocks, blockIdCounter, output, runDisabled, available,
                 connectionError, dragState>>

\* state of runQuery of the block builder
runVars == <<requests, toast, fetchResult, uncaught>>

\* state of the text-editor mode (app.js)
appVars == <<isAnimating, calls, timers, issued, shown, cards>>

vars == <<builderVars, runVars, appVars>>

NoToast == "<none>"
NoFetch == "<none>"

\* no run was requested
RunIdle ==
    /\ requests = <<>>
    /\ toast = NoToast
    /\ fetchResult = NoFetch
    /\ uncaught = FALSE

\* the text editor after page load: the empty state, nothing sent
AppIdle ==
    /\ isAnimating = FALSE
    /\ calls = <<>>
    /\ timers = <<>>
    /\ issued = 0
    /\ shown = 0
    /\ cards = FALSE

NoError == "<none>"

(***************************************************************************)
(* Inputs of the events.                                                   *)
(***************************************************************************)
\* block types carried by drop events: types of the categories a short
\* sequence can hold, the comma, and END, which the Grammar Table names but
\* which is no block type
DropTypes ==
    {"SELECT", "DISTINCT", "FROM", "WHERE", "ORDER BY", "LIMIT", "COUNT()",
     "employees", "id", "number", ",", "END"}

\* values an input field of a number or text block may hold
InputValues == {"", "50000"}

\* types of the blocks in the menu
MenuTypes == DOMAIN BLOCK_CATEGORIES

InputsOf(type) == IF type \in {"number", "text"} THEN InputValues ELSE {""}

Ids(bs) == {bs[i].id : i \in 1..Len(bs)}

\* blocks.findIndex(b => b.id === blockId), 1-based; 0 when absent
findIndex(bs, blockId) ==
    IF blockId \in Ids(bs)
    THEN CHOOSE i \in 1..Len(bs) :
            bs[i].id = blockId /\ \A j \in 1..(i - 1) : bs[j].id # blockId
    ELSE 0

(***************************************************************************)
(* index.js: projections recomputed after a mutation.                      *)
(***************************************************************************)
\* updateAvailableBlocks: the menu types toggled to block--available
updateAvailableBlocks(bs) ==
    LET validNext == validNextOf(getLastBlockCategory(bs))
    IN {type \in MenuTypes :
            getBlockCategory(type) \in validNext \/ type \in validNext}

\* validateQuery: runBtn.disabled = !isComplete
validateQuery(bs) == ~isQueryComplete(bs)

\* generateSQL: output.textContent = generate(); validateQuery(sql)
generateSQL(bs) ==
    /\ output' = generate(bs)
    /\ runDisabled' = validateQuery(bs)

(***************************************************************************)
(* canvas.js (CanvasManager)                                               *)
(***************************************************************************)
\* the record pushed by addBlock, with the element createBlockElement builds
NewBlock(blockId, type, inputValue) ==
    [id |-> blockId,
     type |-> type,
     params |-> <<>>,
     input |-> IF type \in {"number", "text"} THEN inputValue ELSE "",
     slot |-> IF isFunction(type) THEN EmptySlot ELSE NoSlot]

\* variant: the id counter is read but not advanced
addBlock_StaleCounter(type, inputValue) ==
    /\ blockIdCounter' = blockIdCounter
    /\ blocks' = Append(blocks, NewBlock(blockIdCounter, type, inputValue))
    /\ generateSQL(blocks')
    /\ available' = updateAvailableBlocks(blocks')

addBlock(type, inputValue) ==
    /\ blockIdCounter' = blockIdCounter + 1
    /\ blocks' = Append(blocks, NewBlock(blockIdCounter, type, inputValue))
    /\ generateSQL(blocks')
    /\ available' = updateAvailableBlocks(blocks')

\* variant: only the targeted block is deleted
removeBlockAndAfter_PointDelete(blockId) ==
    LET index == findIndex(blocks, blockId)
    IN IF index = 0
       THEN UNCHANGED <<blocks, output, runDisabled, available>>
       ELSE /\ blocks' = SubSeq(blocks, 1, index - 1)
                            \o SubSeq(blocks, index + 1, Len(blocks))
            /\ generateSQL(blocks')
            /\ available' = updateAvailableBlocks(blocks')

\* variant: the truncation keeps the targeted block (slice(0, index + 1))
removeBlockAndAfter_KeepTarget(blockId) ==
    LET index == findIndex(blocks, blockId)
    IN IF index = 0
       THEN UNCHANGED <<blocks, output, runDisabled, available>>
       ELSE /\ blocks' = SubSeq(blocks, 1, index)
            /\ generateSQL(blocks')
            /\ available' = updateAvailableBlocks(blocks')

removeBlockAndAfter(blockId) ==
    LET index == findIndex(blocks, blockId)
    IN IF index = 0
       THEN UNCHANGED <<blocks, output, runDisabled, available>>
       ELSE /\ blocks' = SubSeq(blocks, 1, index - 1)
            /\ generateSQL(blocks')
            /\ available' = updateAvailableBlocks(blocks')

\* variant: the id counter survives the reset
clear_KeepCounter ==
    /\ blocks' = <<>>
    /\ blockIdCounter' = blockIdCounter
    /\ output' = Sentinel
    /\ available' = updateAvailableBlocks(blocks')
    /\ UNCHANGED <<runDisabled, connectionError, dragState>>

clear ==
    /\ blocks' = <<>>
    /\ blockIdCounter' = 0
    /\ output' = Sentinel
    /\ available' = updateAvailableBlocks(blocks')
    /\ UNCHANGED <<runDisabled, connectionError, dragState>>

addParameterToSlot(index, type) ==
    /\ blocks' = [blocks EXCEPT ![index].slot = FilledSlot,
                                ![index].params = <<type>>]
    /\ generateSQL(blocks')

removeParameter(index) ==
    /\ blocks' = [blocks EXCEPT ![index].slot = EmptySlot,
                                ![index].params = <<>>]
    /\ generateSQL(blocks')

(***************************************************************************)
(* Event handlers                                                          *)
(***************************************************************************)
\* variant: the drop is placed without asking canConnect
HandleDrop_NoValidation(type, inputValue) ==
    /\ blockIdCounter < MaxId
    /\ dragState' = "none"
    /\ addBlock(type, inputValue)
    /\ UNCHANGED connectionError

\* drag-drop.js handleDrop with data = {type, inputValue}
HandleDrop(type, inputValue) ==
    /\ dragState' = "none"
    /\ IF canConnect(blocks, type)
       THEN /\ addBlock(type, inputValue)
            /\ UNCHANGED connectionError
       ELSE /\ connectionError' = type
            /\ UNCHANGED <<blocks, blockIdCounter, output, runDisabled, available>>

\* click on the remove button of the canvas block blockId
RemoveClick(blockId) ==
    /\ blockId \in Ids(blocks)
    /\ removeBlockAndAfter(blockId)
    /\ UNCHANGED <<blockIdCounter, connectionError, dragState>>

\* click on the clear button
ClearClick == clear

\* variant: the slot takes a dragged block of any category
HandleParamSlotDrop_AnyType(index, type) ==
    /\ index \in 1..Len(blocks)
    /\ blocks[index].slot # NoSlot
    /\ IF blocks[index].slot = EmptySlot
       THEN addParameterToSlot(index, type)
       ELSE UNCHANGED <<blocks, output, runDisabled>>
    /\ UNCHANGED <<blockIdCounter, available, connectionError, dragState>>

\* variant: a filled slot takes the dragged column in place of the old one
HandleParamSlotDrop_Overwrite(index, type) ==
    /\ index \in 1..Len(blocks)
    /\ blocks[index].slot # NoSlot
    /\ IF isColumn(type)
       THEN addParameterToSlot(index, type)
       ELSE UNCHANGED <<blocks, output, runDisabled>>
    /\ UNCHANGED <<blockIdCounter, available, connectionError, dragState>>

\* drag-drop.js handleParamSlotDrop on the slot of the function block at index
HandleParamSlotDrop(index, type) ==
    /\ index \in 1..Len(blocks)
    /\ blocks[index].slot # NoSlot
    /\ IF isColumn(type) /\ blocks[index].slot = EmptySlot
       THEN addParameterToSlot(index, type)
       ELSE UNCHANGED <<blocks, output, runDisabled>>
    /\ UNCHANGED <<blockIdCounter, available, connectionError, dragState>>

\* click on the remove button of the parameter in the slot of the block at index
RemoveParamClick(index) ==
    /\ index \in 1..Len(blocks)
    /\ blocks[index].slot = FilledSlot
    /\ removeParameter(index)
    /\ UNCHANGED <<blockIdCounter, available, connectionError, dragState>>

\* variant: the query drops the last block while it looks at the blocks
\* before it (pop in place of slice)
HandleDragOver_Destructive(type) ==
    /\ dragState' = IF canConnect(blocks, type) THEN "drag-valid" ELSE "drag-invalid"
    /\ blocks' = SubSeq(blocks, 1, Len(blocks) - 1)
    /\ UNCHANGED <<blockIdCounter, output, runDisabled, available,
                   connectionError>>

\* drag-drop.js handleDragOver: the legality query of a dragged type
HandleDragOver(type) ==
    /\ dragState' = IF canConnect(blocks, type) THEN "drag-valid" ELSE "drag-invalid"
    /\ UNCHANGED <<blocks, blockIdCounter, output, runDisabled, available,
                   connectionError>>

(***************************************************************************)
(* The builder driven by its events.                                       *)
(***************************************************************************)
\* The constructor leaves the output text and the run button as the page
\* markup has them: the output shows the sentinel, the button is in either
\* state until the first generateSQL.
Init ==
    /\ blocks = <<>>
    /\ blockIdCounter = 0
    /\ output = Sentinel
    /\ runDisabled \in BOOLEAN
    /\ available = updateAvailableBlocks(<<>>)
    /\ connectionError = NoError
    /\ dragState = "none"
    /\ RunIdle
    /\ AppIdle

\* types dragged over a parameter slot
ParamTypes == {"id", "COUNT()"}

Next ==
    \/ \E type \in DropTypes : \E inputValue \in InputsOf(type) :
          /\ canConnect(blocks, type) => blockIdCounter < MaxId
          /\ HandleDrop(type, inputValue)
          /\ UNCHANGED <<runVars, appVars>>
    \/ \E blockId \in 0..(MaxId - 1) :
          RemoveClick(blockId) /\ UNCHANGED <<runVars, appVars>>
    \/ ClearClick /\ UNCHANGED <<runVars, appVars>>
    \/ \E index \in 1..MaxId : \E type \in ParamTypes :
          HandleParamSlotDrop(index, type) /\ UNCHANGED <<runVars, appVars>>
    \/ \E index \in 1..MaxId :
          RemoveParamClick(index) /\ UNCHANGED <<runVars, appVars>>

Spec == Init /\ [][Next]_vars

(***************************************************************************)
(* The pure functions of SQLGenerator on arbitrary block sequences: the    *)
(* builder holds any sequence of at most MaxFnLen blocks and answers       *)
(* legality queries.                                                       *)
(***************************************************************************)
\* block types of the sequences: types of every category, the comma, and
\* END, which only the Grammar Table names
FnTypes ==
    {"SELECT", "FROM", "WHERE", "AND", "GROUP BY", "ORDER BY", "LIMIT", "ASC",
     "=", "COUNT()", "employees", "id", "number", ",", "END"}

RECURSIVE TypeSeqs(_)
TypeSeqs(n) ==
    IF n = 0 THEN {<<>>}
    ELSE TypeSeqs(n - 1) \cup
         {Append(s, t) : s \in {q \in TypeSeqs(n - 1) : Len(q) = n - 1},
                         t \in FnTypes}

\* the blocks addBlock would have pushed for the types ts, ids 0, 1, ...
BlocksOf(ts) == [i \in 1..Len(ts) |-> NewBlock(i - 1, ts[i], "")]

InitFn ==
    /\ blocks \in {BlocksOf(ts) : ts \in TypeSeqs(MaxFnLen)}
    /\ blockIdCounter = Len(blocks)
    /\ output = generate(blocks)
    /\ runDisabled = validateQuery(blocks)
    /\ available = updateAvailableBlocks(blocks)
    /\ connectionError = NoError
    /\ dragState = "none"
    /\ RunIdle
    /\ AppIdle

\* types dragged over the canvas
DragTypes == {"SELECT", "FROM", "id", "number", ",", "END", "bogus"}

NextFn ==
    \E type \in DragTypes :
       HandleDragOver(type) /\ UNCHANGED <<runVars, appVars>>

SpecFn == InitFn /\ [][NextFn]_vars

(***************************************************************************)
(* The contents of placed blocks: the canvas holds any sequence of at most *)
(* MaxEditLen blocks that drops have assembled, and the user binds and     *)
(* unbinds parameters, edits literals, removes blocks and clears.          *)
(***************************************************************************)
\* block types of the assembled sequences
EditTypes ==
    {"SELECT", "salary", "COUNT()", "FROM", "employees", "WHERE", ">",
     "number", "text", "ORDER BY", "ASC"}

\* the sequences of at most n blocks, at most MaxFns of them functions, in
\* which every block was accepted by handleDrop at its position
RECURSIVE LegalSeqs(_)
LegalSeqs(n) ==
    IF n = 0 THEN {<<>>}
    ELSE LET prev == LegalSeqs(n - 1)
             fns(q) == Cardinality({i \in 1..Len(q) : isFunction(q[i])})
             ext == {p \in {q \in prev : Len(q) = n - 1} \X EditTypes :
                        /\ canConnect(BlocksOf(p[1]), p[2])
                        /\ fns(Append(p[1], p[2])) <= MaxFns}
         IN prev \cup {Append(p[1], p[2]) : p \in ext}

\* types dragged over a parameter slot: two columns and a function
EditParamTypes == {"*", "salary", "COUNT()"}

\* values typed into the input field of a number or text block
EditValues == {"", "7"}

\* values typed into the input field of a text block: plain, and starting
\* with a single or a double quote
EditTexts == {"", "abc", "'x'", "\"y\""}

\* the values the field of the block at index can take: a number field
\* holds no text
EditValuesOf(index) ==
    IF index \in 1..Len(blocks) /\ blocks[index].type = "text"
    THEN EditTexts ELSE EditValues

\* variant: the field takes the typed value and nothing is recomputed
InputEdit_NoRefresh(index, value) ==
    /\ index \in 1..Len(blocks)
    /\ blocks[index].type \in {"number", "text"}
    /\ blocks[index].input # value
    /\ blocks' = [blocks EXCEPT ![index].input = value]
    /\ UNCHANGED <<blockIdCounter, output, runDisabled, available,
                   connectionError, dragState>>

\* the input listener of a number or text block (canvas.js
\* appendInputContent): the field holds the typed value, then generateSQL
InputEdit(index, value) ==
    /\ index \in 1..Len(blocks)
    /\ blocks[index].type \in {"number", "text"}
    /\ blocks[index].input # value
    /\ blocks' = [blocks EXCEPT ![index].input = value]
    /\ generateSQL(blocks')
    /\ UNCHANGED <<blockIdCounter, available, connectionError, dragState>>

InitEdit ==
    /\ blocks \in {BlocksOf(ts) : ts \in LegalSeqs(MaxEditLen)}
    /\ blockIdCounter = Len(blocks)
    /\ output = generate(blocks)
    /\ runDisabled = validateQuery(blocks)
    /\ available = updateAvailableBlocks(blocks)
    /\ connectionError = NoError
    /\ dragState = "none"
    /\ RunIdle
    /\ AppIdle

\* block types dropped on the canvas
EditDropTypes == {"employees", "number"}

NextEdit ==
    \/ \E type \in EditDropTypes : \E inputValue \in InputsOf(type) :
          /\ canConnect(blocks, type) => blockIdCounter < MaxEditLen
          /\ HandleDrop(type, inputValue)
          /\ UNCHANGED <<runVars, appVars>>
    \/ \E index \in 1..(MaxEditLen + 1) : \E type \in EditParamTypes :
          HandleParamSlotDrop(index, type) /\ UNCHANGED <<runVars, appVars>>
    \/ \E index \in 1..(MaxEditLen + 1) :
          RemoveParamClick(index) /\ UNCHANGED <<runVars, appVars>>
    \/ \E index \in 1..(MaxEditLen + 1) :
          \E value \in EditValuesOf(index) :
             InputEdit(index, value) /\ UNCHANGED <<runVars, appVars>>
    \/ \E blockId \in 0..MaxEditLen :
          RemoveClick(blockId) /\ UNCHANGED <<runVars, appVars>>
    \/ ClearClick /\ UNCHANGED <<runVars, appVars>>

SpecEdit == InitEdit /\ [][NextEdit]_vars

(***************************************************************************)
(* index.js runQuery: the run button of the block builder. A call that     *)
(* passes its guards awaits the fetch; it resumes when the fetch settles.  *)
(***************************************************************************)
BuildFirstToast == "Please build a query first"
CompleteFirstToast ==
    "Please complete your query (need SELECT, columns, FROM, and a table)"
SuccessToast == "Query executed successfully!"
QueryFailedToast == "Query failed"
ConnectFailedToast ==
    "Failed to connect to server. Make sure the backend is running."

\* texts that sql.trim() leaves empty
Blank == {"", " ", "\n"}

\* s without its element at position i
RemoveAt(s, i) == SubSeq(s, 1, i - 1) \o SubSeq(s, i + 1, Len(s))

\* variant: the displayed text is sent without the two guards
runQuery_Unguarded ==
    /\ requests' = Append(requests, output)
    /\ UNCHANGED <<toast, fetchResult, uncaught>>

\* runQuery up to its await: sql is the displayed text
runQuery ==
    LET sql == output
    IN IF sql = Sentinel \/ sql \in Blank
       THEN /\ toast' = BuildFirstToast
            /\ UNCHANGED <<requests, fetchResult, uncaught>>
       ELSE IF ~isQueryComplete(blocks)
       THEN /\ toast' = CompleteFirstToast
            /\ UNCHANGED <<requests, fetchResult, uncaught>>
       ELSE /\ requests' = Append(requests, sql)
            /\ UNCHANGED <<toast, fetchResult, uncaught>>

\* click on the run button; a disabled button dispatches no click
RunClick ==
    /\ ~runDisabled
    /\ runQuery
    /\ UNCHANGED <<builderVars, appVars>>

\* the fetch of the call at position i resolves and response.json() gives
\* data with data.success = success
FetchResolves(i, success) ==
    /\ i \in 1..Len(requests)
    /\ requests' = RemoveAt(requests, i)
    /\ fetchResult' = IF success THEN "success" ELSE "error"
    /\ toast' = IF success THEN SuccessToast ELSE QueryFailedToast
    /\ UNCHANGED <<uncaught, builderVars, appVars>>

\* the fetch of the call at position i rejects: the catch block evaluates
\* this.removeToast(loadingToast), and loadingToast is declared nowhere in
\* the module, so the catch block throws a ReferenceError before showToast
FetchRejects(i) ==
    /\ i \in 1..Len(requests)
    /\ requests' = RemoveAt(requests, i)
    /\ fetchResult' = "rejected"
    /\ uncaught' = TRUE
    /\ UNCHANGED <<toast, builderVars, appVars>>

\* block types dropped on the canvas of the running builder
RunDropTypes == {"SELECT", "*", "FROM", "employees"}

\* canvas blocks whose remove button is clicked: the first ones placed
RunRemoveIds == {0, 3}

InitRun ==
    /\ blocks = <<>>
    /\ blockIdCounter = 0
    /\ output = Sentinel
    /\ runDisabled \in BOOLEAN
    /\ available = updateAvailableBlocks(<<>>)
    /\ connectionError = NoError
    /\ dragState = "none"
    /\ RunIdle
    /\ AppIdle

NextRun ==
    \/ \E type \in RunDropTypes :
          /\ canConnect(blocks, type) => blockIdCounter < MaxId
          /\ HandleDrop(type, "")
          /\ UNCHANGED <<runVars, appVars>>
    \/ \E blockId \in RunRemoveIds :
          RemoveClick(blockId) /\ UNCHANGED <<runVars, appVars>>
    \/ ClearClick /\ UNCHANGED <<runVars, appVars>>
    \/ Len(requests) < MaxInFlight /\ RunClick
    \/ \E i \in 1..MaxInFlight : \E success \in BOOLEAN :
          FetchResolves(i, success)
    \/ \E i \in 1..MaxInFlight : FetchRejects(i)

SpecRun == InitRun /\ [][NextRun]_vars

(***************************************************************************)
(* app.js, the text-editor mode: runQuery, ui.displayResults and           *)
(* ui.animateCardsOut. A call awaits api.executeQuery, and, when cards are *)
(* on display, the timer of animateCardsOut; timers of equal delay fire in *)
(* the order they were set.                                                *)
(***************************************************************************)
\* the editor text at the click, trimmed
Queries == {"", "SELECT 1"}

\* what a successful response carries: rows, or none
Results == {"rows", "empty"}

\* app.runQuery up to its await
app_runQuery(query) ==
    IF isAnimating \/ query = ""
    THEN UNCHANGED appVars
    ELSE /\ issued' = issued + 1
         /\ calls' = Append(calls, issued + 1)
         /\ UNCHANGED <<isAnimating, timers, shown, cards>>

\* click on the run button or Ctrl+Enter in the editor
AppRunClick(query) ==
    /\ app_runQuery(query)
    /\ UNCHANGED <<builderVars, runVars>>

\* api.executeQuery of the call at position i resolves with result.success:
\* displayResults calls animateCardsOut, which resolves at once when no card
\* is on display and otherwise sets isAnimating and a timer
ExecuteQuerySucceeds(i, result) ==
    /\ i \in 1..Len(calls)
    /\ calls' = RemoveAt(calls, i)
    /\ IF cards
       THEN /\ isAnimating' = TRUE
            /\ timers' = Append(timers, [n |-> calls[i], result |-> result])
            /\ UNCHANGED <<shown, cards>>
       ELSE /\ shown' = calls[i]
            /\ cards' = (result = "rows")
            /\ UNCHANGED <<isAnimating, timers>>
    /\ UNCHANGED <<issued, builderVars, runVars>>

\* api.executeQuery resolves with success false, or rejects: showMessage and
\* ui.clearResults
ExecuteQueryFails(i) ==
    /\ i \in 1..Len(calls)
    /\ calls' = RemoveAt(calls, i)
    /\ shown' = 0
    /\ cards' = FALSE
    /\ UNCHANGED <<isAnimating, timers, issued, builderVars, runVars>>

\* the oldest timer of animateCardsOut fires: isAnimating is reset, the
\* promise resolves and displayResults paints the results of its call
AnimationTimerFires ==
    /\ timers # <<>>
    /\ isAnimating' = FALSE
    /\ shown' = Head(timers).n
    /\ cards' = (Head(timers).result = "rows")
    /\ timers' = Tail(timers)
    /\ UNCHANGED <<calls, issued, builderVars, runVars>>

InitApp ==
    /\ blocks = <<>>
    /\ blockIdCounter = 0
    /\ output = Sentinel
    /\ runDisabled = TRUE
    /\ available = updateAvailableBlocks(<<>>)
    /\ connectionError = NoError
    /\ dragState = "none"
    /\ RunIdle
    /\ AppIdle

NextApp ==
    \/ \E query \in Queries :
          /\ (~isAnimating /\ query # "") => issued < MaxQueries
          /\ AppRunClick(query)
    \/ \E i \in 1..MaxQueries : \E result \in Results :
          ExecuteQuerySucceeds(i, result)
    \/ \E i \in 1..MaxQueries : ExecuteQueryFails(i)
    \/ AnimationTimerFires

SpecApp == InitApp /\ [][NextApp]_vars

(***************************************************************************)
(* Properties of the Connection Validator and the Category Resolver,       *)
(* checked under SpecFn.                                                   *)
(***************************************************************************)
LastType(bs) == bs[Len(bs)].type

\* the Grammar Table entry of the context of bs, empty when the key is absent
Allowed(bs) ==
    LET ctx == getLastBlockCategory(bs)
    IN IF ctx \in DOMAIN VALID_CONNECTIONS THEN VALID_CONNECTIONS[ctx] ELSE {}

ListItemContexts == {"COLUMN", "FUNCTION", "GROUP_COLUMN", "ORDER_COLUMN"}

\* candidate types of a legality query: the types of the sequences, the
\* text literal, the other strings that only the Grammar Table names, and a
\* string the program knows nothing of
Candidates == FnTypes \cup {"text", "ALL", "NUMBER", "COMMA", "bogus"}

\* C1: for every block sequence and every candidate type other than the
\* comma, canConnect answers a boolean that is true exactly when the Grammar
\* Table entry of the contextual category holds the candidate's category or
\* the candidate type itself.
C1_CanConnectIsTableLookup ==
    \A t \in Candidates \ {","} :
        /\ canConnect(blocks, t) \in BOOLEAN
        /\ canConnect(blocks, t) <=>
              (getBlockCategory(t) \in Allowed(blocks) \/ t \in Allowed(blocks))

\* a legality query was answered "valid" for a sequence ending in a table,
\* where END is accepted by its type string although it has no category
C1_Witness ==
    /\ Len(blocks) = 3
    /\ LastType(blocks) = "employees"
    /\ dragState = "drag-valid"
    /\ canConnect(blocks, "END")
    /\ ~canConnect(blocks, "id")

C4_LimitAcceptsNumberOnly ==
    (Len(blocks) > 0 /\ LastType(blocks) = "LIMIT")
        => (canConnect(blocks, "number") /\ ~canConnect(blocks, "text"))

\* C5: the comma is accepted exactly in the contexts COLUMN, FUNCTION,
\* GROUP_COLUMN and ORDER_COLUMN, whatever the Grammar Table lists; it is
\* rejected after ASC, after a condition column and on the empty sequence.
C5_CommaOnlyAfterListItem ==
    /\ canConnect(blocks, ",") <=>
          getLastBlockCategory(blocks) \in ListItemContexts
    /\ (Len(blocks) = 0 \/ getLastBlockCategory(blocks) \in {"ASC", "DESC", "CONDITION_COLUMN"})
          => ~canConnect(blocks, ",")

\* a sequence ending in ASC, whose table entry lists COMMA, refused a
\* dragged comma
C5_Witness ==
    /\ Len(blocks) = 3
    /\ LastType(blocks) = "ASC"
    /\ "COMMA" \in Allowed(blocks)
    /\ ~canConnect(blocks, ",")
    /\ dragState = "drag-invalid"

\* the clause keywords the Category Resolver looks for
ClauseKeywords ==
    {"WHERE", "AND", "OR", "GROUP BY", "ORDER BY", "SELECT", "FROM", "JOIN",
     "ON", "LIMIT"}

\* the nearest clause keyword among the blocks before the last one
NearestClauseKeyword(bs) ==
    LET idx == {i \in 1..(Len(bs) - 1) : bs[i].type \in ClauseKeywords}
    IN IF idx = {} THEN NullKeyword
       ELSE bs[CHOOSE i \in idx : \A j \in idx : j <= i].type

ExpectedContext(bs) ==
    IF Len(bs) = 0 THEN "START"
    ELSE LET base == getBlockCategory(LastType(bs))
             kw == NearestClauseKeyword(bs)
         IN IF base # "COLUMN" THEN base
            ELSE CASE kw \in {"WHERE", "AND", "OR"} -> "CONDITION_COLUMN"
                   [] kw = "GROUP BY" -> "GROUP_COLUMN"
                   [] kw = "ORDER BY" -> "ORDER_COLUMN"
                   [] OTHER -> "COLUMN"

\* C6: the contextual category is START on the empty sequence; for a last
\* block of base category COLUMN it is decided by the nearest clause keyword
\* before it, whatever lies in between; for any other last block it is the
\* base category. The sequence SELECT id FROM employees GROUP BY department
\* ends in a GROUP_COLUMN.
C6_ContextFollowsNearestKeyword ==
    /\ getLastBlockCategory(blocks) = ExpectedContext(blocks)
    /\ getLastBlockCategory(BlocksOf(<<"SELECT", "id", "FROM", "employees",
                                       "GROUP BY", "department">>))
          = "GROUP_COLUMN"

\* a column separated from ORDER BY by a sort modifier, and one whose nearest
\* keyword WHERE hides an earlier SELECT, have been queried
C6_Witness ==
    /\ Len(blocks) = 3
    /\ dragState # "none"
    /\ \/ /\ blocks[1].type = "ORDER BY" /\ blocks[2].type = "ASC"
          /\ blocks[3].type = "id"
          /\ getLastBlockCategory(blocks) = "ORDER_COLUMN"
       \/ /\ blocks[1].type = "SELECT" /\ blocks[2].type = "WHERE"
          /\ blocks[3].type = "id"
          /\ getLastBlockCategory(blocks) = "CONDITION_COLUMN"

(***************************************************************************)
(* Properties of the Sequence Tracker driven by its events, checked under  *)
(* Spec.                                                                   *)
(***************************************************************************)
Prefix(bs, k) == SubSeq(bs, 1, k)

LegalAtEveryPosition(bs) ==
    \A k \in 0..(Len(bs) - 1) : canConnect(Prefix(bs, k), bs[k + 1].type)

ClauseOrder(bs) ==
    \A i \in 1..Len(bs) :
        /\ bs[i].type = "FROM" => \E j \in 1..(i - 1) : bs[j].type = "SELECT"
        /\ getBlockCategory(bs[i].type) = "TABLE"
              => \E j \in 1..(i - 1) : bs[j].type = "FROM"

\* C3: in every reachable state each block was legal at its position, i.e.
\* canConnect accepts the type of block k+1 after the first k blocks; so
\* SELECT precedes every FROM and FROM precedes every table block.
C3_EveryBlockLegalAtItsPosition ==
    LegalAtEveryPosition(blocks) /\ ClauseOrder(blocks)

\* SELECT COUNT(id) FROM employees, left after a fifth block was placed and
\* removed again and a parameter was bound
C3_Witness ==
    /\ Len(blocks) = 4
    /\ blockIdCounter = 5
    /\ blocks[2].type = "COUNT()" /\ blocks[2].params = <<"id">>
    /\ blocks[3].type = "FROM"
    /\ blocks[4].type = "employees"

\* C7: a drop whose type canConnect rejects leaves the blocks and the id
\* counter (and the projections of the blocks) unchanged and reports the
\* rejected type through showConnectionError; a connection error is only
\* ever reported for a type that was not placeable.
C7_RejectedDropChangesNothing ==
    [][/\ \A type \in DropTypes : \A inputValue \in InputsOf(type) :
             (HandleDrop(type, inputValue) /\ ~canConnect(blocks, type))
                => /\ UNCHANGED <<blocks, blockIdCounter, output, available>>
                   /\ connectionError' = type
       /\ connectionError' # connectionError
             => /\ ~canConnect(blocks, connectionError')
                /\ UNCHANGED <<blocks, blockIdCounter>>]_vars

\* a table was refused after SELECT id and is the reported connection error
C7_Witness ==
    /\ Len(blocks) = 2
    /\ blocks[1].id = 0 /\ blocks[2].id = 1
    /\ blockIdCounter = 2
    /\ LastType(blocks) = "id"
    /\ connectionError = "employees"

\* C8: removing the block at 0-based position k leaves exactly the first k
\* blocks, unchanged and in order; whenever the sequence shrinks, what is
\* left is a prefix of what was there.
C8_RemovalTruncates ==
    [][/\ \A blockId \in 0..MaxId :
             RemoveClick(blockId)
                => LET k == findIndex(blocks, blockId) - 1
                   IN /\ k \in 0..(Len(blocks) - 1)
                      /\ Len(blocks') = k
                      /\ blocks' = Prefix(blocks, k)
                      /\ blockId \notin Ids(blocks')
       /\ Len(blocks') < Len(blocks)
             => blocks' = Prefix(blocks, Len(blocks'))]_vars

\* five blocks were placed and the one at position 2 was removed: the first
\* two are left, with their ids and the bound parameter
C8_Witness ==
    /\ blockIdCounter = 5
    /\ Len(blocks) = 2
    /\ blocks[1].id = 0 /\ blocks[2].id = 1
    /\ blocks[2].params = <<"id">>

IdsIncreasing(bs) == \A i, j \in 1..Len(bs) : i < j => bs[i].id < bs[j].id

\* C9: the ids in the sequence are strictly increasing (hence distinct) and
\* below the id counter; a placement gives the new block the current counter
\* value and advances the counter by one; a removal does not lower it.
C9_IdsFreshAndIncreasing ==
    /\ [](/\ IdsIncreasing(blocks)
          /\ \A i \in 1..Len(blocks) : blocks[i].id < blockIdCounter)
    /\ [][/\ Len(blocks') > Len(blocks)
                => /\ blocks' = Append(blocks, blocks'[Len(blocks')])
                   /\ blocks'[Len(blocks')].id = blockIdCounter
                   /\ blockIdCounter' = blockIdCounter + 1
          /\ \A blockId \in 0..MaxId :
                RemoveClick(blockId) => blockIdCounter' >= blockIdCounter]_vars

\* a block placed after a removal carries a fresh id: ids 0 and 3
C9_Witness ==
    /\ Len(blocks) = 2
    /\ blocks[1].id = 0
    /\ blocks[2].id = 3
    /\ blockIdCounter = 4

\* C10: clear leaves the sequence empty and the id counter at 0; the SQL
\* rendered from the cleared sequence and the displayed text are the
\* sentinel, and the contextual category is START again.
C10_ClearResets ==
    [][ClearClick
          => /\ blocks' = <<>>
             /\ blockIdCounter' = 0
             /\ generate(blocks') = Sentinel
             /\ output' = generate(blocks')
             /\ getLastBlockCategory(blocks') = "START"]_vars

\* the state after clearing a sequence in which a second SELECT had been
\* refused: empty, counter 0, and SELECT still the last connection error
C10_Witness ==
    /\ blocks = <<>>
    /\ blockIdCounter = 0
    /\ output = Sentinel
    /\ connectionError = "SELECT"

\* C11: in every reachable state every block holds at most one bound
\* parameter; a block that holds one has category FUNCTION and a slot marked
\* filled, and the bound parameter is a type of category COLUMN.
C11_OneColumnParameterOnFunctions ==
    \A i \in 1..Len(blocks) :
        /\ Len(blocks[i].params) <= 1
        /\ Len(blocks[i].params) = 1
              => /\ getBlockCategory(blocks[i].type) = "FUNCTION"
                 /\ blocks[i].slot = FilledSlot
                 /\ getBlockCategory(blocks[i].params[1]) = "COLUMN"
        /\ getBlockCategory(blocks[i].type) # "FUNCTION"
              => blocks[i].params = <<>> /\ blocks[i].slot = NoSlot

\* SELECT COUNT(id) id: a function holding the column id, followed by a
\* column block that holds nothing
C11_Witness ==
    /\ Len(blocks) = 3
    /\ blocks[2].type = "COUNT()" /\ blocks[2].params = <<"id">>
    /\ blocks[3].type = "id" /\ blocks[3].params = <<>>

\* C14: completeness is monotone under placement. A step that turns an
\* incomplete sequence into a complete one appends one block, after which
\* the sequence holds a SELECT, a FROM, a table and a column or function; a
\* placement on a complete sequence leaves it complete; a step
\* that turns a complete sequence into an incomplete one is a removal or a
\* clear.
C14_CompletenessMonotone ==
    [][/\ (~isQueryComplete(blocks) /\ isQueryComplete(blocks'))
             => /\ Len(blocks') = Len(blocks) + 1
                /\ Prefix(blocks', Len(blocks)) = blocks
                /\ "SELECT" \in {blocks'[i].type : i \in 1..Len(blocks')}
                /\ "FROM" \in {blocks'[i].type : i \in 1..Len(blocks')}
                /\ \E i \in 1..Len(blocks') : blocks'[i].type \in TableTypes
                /\ \E i \in 1..Len(blocks') :
                      blocks'[i].type \in ColumnTypes \cup FunctionTypes
       /\ (isQueryComplete(blocks) /\ Len(blocks') > Len(blocks))
             => isQueryComplete(blocks')
       /\ (isQueryComplete(blocks) /\ ~isQueryComplete(blocks'))
             => \/ ClearClick
                \/ \E blockId \in Ids(blocks) : RemoveClick(blockId)]_vars

\* a clause keyword was placed on the complete SELECT id FROM employees and
\* the run button is still enabled
C14_Witness ==
    /\ Len(blocks) = 5
    /\ isQueryComplete(Prefix(blocks, 4))
    /\ ~isQueryComplete(Prefix(blocks, 3))
    /\ LastType(blocks) \in {"WHERE", "ORDER BY", "LIMIT"}
    /\ isQueryComplete(blocks)
    /\ ~runDisabled

\* C16 as claimed: after every step that changes the sequence of blocks (a
\* placement, a removal, a clear) the run button is enabled exactly when
\* isQueryComplete holds for the new sequence.
C16_RunButtonFollowsCompleteness ==
    [][blocks' # blocks => (runDisabled' <=> ~isQueryComplete(blocks'))]_vars

\* C17 as claimed: for every block type of the vocabulary and for the
\* comma, the type is marked available in the menu exactly when canConnect
\* accepts it after the current blocks.
C17_MenuAgreesWithCanConnect ==
    \A type \in MenuTypes \cup {","} :
        type \in available <=> canConnect(blocks, type)

\* C25 as claimed: when the last block is an explicit comma placed after a
\* column or function block, a column and a function are accepted next.
C25_ItemPlaceableAfterExplicitComma ==
    (/\ Len(blocks) >= 2
     /\ LastType(blocks) = ","
     /\ getBlockCategory(blocks[Len(blocks) - 1].type) \in {"COLUMN", "FUNCTION"})
        => canConnect(blocks, "id") /\ canConnect(blocks, "COUNT()")

\* the block types that some Grammar Table entry lists, by type or category
ListedTypes ==
    {type \in DOMAIN BLOCK_CATEGORIES :
        \E k \in DOMAIN VALID_CONNECTIONS :
            type \in VALID_CONNECTIONS[k]
               \/ getBlockCategory(type) \in VALID_CONNECTIONS[k]}

\* C29 as claimed, in the form canConnect makes necessary: a block type of
\* the vocabulary can be accepted in some context only if some Grammar
\* Table entry lists its type or its category; so every key of the category
\* map, ON included, is listed by some entry.
C29_EveryTypeListedSomewhere ==
    /\ \A type \in DOMAIN BLOCK_CATEGORIES :
          canConnect(blocks, type) => type \in ListedTypes
    /\ ListedTypes = DOMAIN BLOCK_CATEGORIES

(***************************************************************************)
(* Properties of the contents of placed blocks, checked under SpecEdit.    *)
(***************************************************************************)
\* C12: a drop on a filled parameter slot changes nothing: the bound
\* parameter is kept and the sequence is unchanged; a bound parameter never
\* changes into another one in one step, so a new binding needs the slot
\* cleared by removeParameter first; removeParameter empties the slot, and a
\* column dropped on an empty slot is bound.
C12_FilledSlotRejectsBind ==
    [][/\ \A index \in 1..Len(blocks) : \A type \in EditParamTypes :
             /\ (HandleParamSlotDrop(index, type)
                    /\ blocks[index].slot = FilledSlot)
                   => UNCHANGED vars
             /\ (HandleParamSlotDrop(index, type)
                    /\ blocks[index].slot = EmptySlot /\ isColumn(type))
                   => blocks' = [blocks EXCEPT ![index].params = <<type>>,
                                               ![index].slot = FilledSlot]
       /\ \A index \in 1..Len(blocks) :
             RemoveParamClick(index)
                => blocks' = [blocks EXCEPT ![index].params = <<>>,
                                            ![index].slot = EmptySlot]
       /\ \A i \in 1..Len(blocks) :
             (/\ i <= Len(blocks')
              /\ blocks'[i].id = blocks[i].id
              /\ blocks[i].params # <<>>
              /\ blocks'[i].params # <<>>)
                => blocks'[i].params = blocks[i].params]_vars

\* a slot filled with the second column: it was bound, unbound and bound
\* again, or bound once; a further drop of salary is pending
C12_Witness ==
    /\ Len(blocks) = 4
    /\ blocks[2].type = "COUNT()"
    /\ blocks[2].slot = FilledSlot
    /\ blocks[2].params = <<"*">>
    /\ output = "SELECT COUNT(*)\nFROM employees"

\* C15: in every state between two events, whichever of place, remove,
\* clear, bind, unbind and literal edit came last, the displayed SQL text is
\* the text generate renders from the current blocks.
C15_DisplayedSqlIsFresh == output = generate(blocks)

\* the literal of the number block of an eight-block query was edited to 7
\* and the displayed text shows it
C15_Witness ==
    /\ Len(blocks) = 8
    /\ blocks[8].type = "number"
    /\ blocks[8].input = "7"
    /\ output = "SELECT salary\nFROM employees\nWHERE salary > 7"

(***************************************************************************)
(* Properties of the Completeness Checker and the SQL Renderer on          *)
(* arbitrary sequences, checked under SpecFn.                              *)
(***************************************************************************)
TypesOf(bs) == {bs[i].type : i \in 1..Len(bs)}

\* the four required conditions, read off the set of types of the sequence
RequiredConditions(bs) ==
    /\ "SELECT" \in TypesOf(bs)
    /\ "FROM" \in TypesOf(bs)
    /\ TypesOf(bs) \cap TableTypes # {}
    /\ TypesOf(bs) \cap (ColumnTypes \cup FunctionTypes) # {}

\* the sequence bs with one more block of type t at its end
Extended(bs, t) == Append(bs, NewBlock(Len(bs), t, ""))

\* C13: for every block sequence, in any order, isQueryComplete is true
\* exactly when the sequence holds a SELECT, a FROM, a block of category
\* TABLE and a block of category COLUMN or FUNCTION; checked on the sequence
\* of the state and on each of its extensions by one block. SELECT * FROM
\* employees is complete, SELECT * is not.
C13_CompleteIffFourConditions ==
    /\ isQueryComplete(blocks) <=> RequiredConditions(blocks)
    /\ \A t \in FnTypes :
          isQueryComplete(Extended(blocks, t))
             <=> RequiredConditions(Extended(blocks, t))
    /\ isQueryComplete(BlocksOf(<<"SELECT", "*", "FROM", "employees">>))
    /\ ~isQueryComplete(BlocksOf(<<"SELECT", "*">>))

\* a sequence in no legal order, employees FROM COUNT(), is incomplete for
\* want of a SELECT and complete once a SELECT follows
C13_Witness ==
    /\ Len(blocks) = 3
    /\ blocks[1].type = "employees"
    /\ blocks[2].type = "FROM"
    /\ blocks[3].type = "COUNT()"
    /\ dragState = "drag-invalid"
    /\ runDisabled
    /\ ~isQueryComplete(blocks)
    /\ isQueryComplete(Extended(blocks, "SELECT"))

\* C18: the context of the empty sequence is START, and SELECT is accepted
\* exactly on the empty sequence; so a non-empty sequence in which every
\* block was accepted at its position begins with SELECT and holds no other
\* SELECT.
C18_SelectOnlyAtStart ==
    /\ getLastBlockCategory(<<>>) = "START"
    /\ canConnect(blocks, "SELECT") <=> Len(blocks) = 0
    /\ \A k \in DOMAIN VALID_CONNECTIONS :
          "SELECT" \in VALID_CONNECTIONS[k] <=> k = "START"
    /\ (Len(blocks) > 0 /\ LegalAtEveryPosition(blocks))
          => /\ blocks[1].type = "SELECT"
             /\ \A i \in 2..Len(blocks) : blocks[i].type # "SELECT"

\* a SELECT was dragged over SELECT id ',', a legal sequence whose last
\* block has no category, and was refused
C18_Witness ==
    /\ Len(blocks) = 3
    /\ LegalAtEveryPosition(blocks)
    /\ blocks[1].type = "SELECT"
    /\ LastType(blocks) = ","
    /\ ~canConnect(blocks, "SELECT")
    /\ dragState = "drag-invalid"

ListItem(block) == getBlockCategory(block.type) \in {"COLUMN", "FUNCTION"}

\* block i and the block directly before it are both list items
AdjacentItems(bs, i) == i > 1 /\ ListItem(bs[i]) /\ ListItem(bs[i - 1])

\* where the part of block i lies if one part is inserted per adjacent pair
PartIndex(bs, i) == i + Cardinality({j \in 2..i : AdjacentItems(bs, j)})

\* C19: the parts rendered from a sequence are the parts of its blocks, in
\* order, with one comma part inserted directly before the part of a block
\* exactly when that block and the block directly before it both have
\* category COLUMN or FUNCTION, and nothing inserted anywhere else; SELECT
\* id name renders as "SELECT id, name".
C19_AutoCommaBetweenAdjacentItems ==
    LET parts == collectParts(blocks)
    IN /\ Len(parts) = PartIndex(blocks, Len(blocks))
       /\ \A i \in 1..Len(blocks) :
             /\ parts[PartIndex(blocks, i)] = processBlock(blocks[i])
             /\ AdjacentItems(blocks, i)
                   => /\ PartIndex(blocks, i) = PartIndex(blocks, i - 1) + 2
                      /\ parts[PartIndex(blocks, i) - 1] = CommaPart
             /\ (i > 1 /\ ~AdjacentItems(blocks, i))
                   => PartIndex(blocks, i) = PartIndex(blocks, i - 1) + 1
       /\ PartIndex(blocks, 1) = 1 \/ Len(blocks) = 0
       /\ generate(BlocksOf(<<"SELECT", "id", "name">>)) = "SELECT id, name"

\* SELECT id COUNT(): one comma between the column and the function, none
\* before the column
C19_Witness ==
    /\ Len(blocks) = 3
    /\ blocks[1].type = "SELECT"
    /\ blocks[2].type = "id"
    /\ blocks[3].type = "COUNT()"
    /\ Len(collectParts(blocks)) = 4
    /\ output = "SELECT id, COUNT()"
    /\ dragState = "drag-valid"

\* the clause keywords the claim lists
NewLineClauseKeywords ==
    {"FROM", "WHERE", "JOIN", "ON", "GROUP BY", "ORDER BY", "LIMIT", "AND", "OR"}

\* SELECT * FROM employees WHERE salary > number, the number holding 50000
NewlineExample ==
    [BlocksOf(<<"SELECT", "*", "FROM", "employees", "WHERE", "salary", ">",
                "number">>) EXCEPT ![8].input = "50000"]

\* C20: the rendered text is the concatenation of the formatted parts; a
\* part that is one of the listed clause keywords and not the first part is
\* formatted as one newline followed by the keyword, with no space; every
\* other part is formatted as its text, alone or after one space, never
\* after a newline. The example query renders on three lines.
C20_NewlineBeforeClauseKeywords ==
    LET parts == collectParts(blocks)
    IN /\ \A i \in 1..Len(parts) :
             IF ~parts[i].comma /\ parts[i].text \in NewLineClauseKeywords
                /\ i > 1
             THEN formatPart(parts, i) = "\n" \o parts[i].text
             ELSE formatPart(parts, i) \in {parts[i].text, " " \o parts[i].text}
       /\ Len(blocks) > 0 => generate(blocks) = formatUpTo(parts, Len(parts))
       /\ NEW_LINE_KEYWORDS = NewLineClauseKeywords
       /\ generate(NewlineExample)
             = "SELECT *\nFROM employees\nWHERE salary > 50000"

\* FROM employees WHERE: the leading FROM has no newline before it, the
\* later WHERE has one and no space
C20_Witness ==
    /\ Len(blocks) = 3
    /\ blocks[1].type = "FROM"
    /\ blocks[3].type = "WHERE"
    /\ output = "FROM employees\nWHERE"
    /\ dragState # "none"

C24_ReadsLeaveBlocksAlone ==
    [][/\ UNCHANGED <<blocks, blockIdCounter, output, runDisabled>>
       /\ legacyGenerateSQL(blocks', {}).processed = {}]_vars

\* SELECT COUNT() id was queried: the monolith nests id into COUNT, the
\* modular renderer lists it, and both show the same text again
C24_Witness ==
    /\ Len(blocks) = 3
    /\ blocks[2].type = "COUNT()"
    /\ blocks[3].type = "id"
    /\ blockIdCounter = 3
    /\ dragState = "drag-valid"
    /\ output = "SELECT COUNT(), id"
    /\ legacyGenerateSQL(blocks, {}).text = "SELECT COUNT(id)"

\* the number of comma parts among parts
CommaCount(parts) == Cardinality({j \in 1..Len(parts) : parts[j].comma})

\* C26: where a comma block sits between two column or function blocks, the
\* three blocks render as item, one comma part, item; in the whole sequence
\* the comma parts are one per comma block and one per pair of adjacent
\* items, so no adjacency gets two. SELECT id ',' name renders as
\* "SELECT id, name".
C26_ExplicitCommaIsTheOnlyComma ==
    /\ \A i \in 2..(Len(blocks) - 1) :
          (blocks[i].type = "," /\ ListItem(blocks[i - 1])
             /\ ListItem(blocks[i + 1]))
             => collectParts(SubSeq(blocks, i - 1, i + 1))
                   = <<processBlock(blocks[i - 1]), CommaPart,
                       processBlock(blocks[i + 1])>>
    /\ CommaCount(collectParts(blocks))
          = Cardinality({i \in 1..Len(blocks) : blocks[i].type = ","})
               + Cardinality({i \in 2..Len(blocks) : AdjacentItems(blocks, i)})
    /\ generate(BlocksOf(<<"SELECT", "id", ",", "name">>)) = "SELECT id, name"

\* id ',' COUNT(): a comma block between a column and a function
C26_Witness ==
    /\ Len(blocks) = 3
    /\ blocks[1].type = "id"
    /\ blocks[2].type = ","
    /\ blocks[3].type = "COUNT()"
    /\ output = "id, COUNT()"
    /\ dragState # "none"

(***************************************************************************)
(* Properties of the SQL Renderer on the contents of placed blocks,        *)
(* checked under SpecEdit.                                                 *)
(***************************************************************************)
\* the blocks bs with every parameter slot emptied
Unbound(bs) == [i \in 1..Len(bs) |-> [bs[i] EXCEPT !.params = <<>>]]

\* SELECT COUNT() FROM employees with the column id bound to COUNT()
NestingExample ==
    [BlocksOf(<<"SELECT", "COUNT()", "FROM", "employees">>)
        EXCEPT ![2].params = <<"id">>, ![2].slot = FilledSlot]

\* C21: the function name is the type without its trailing "()"; a function
\* block renders as one part, the name followed by the bound parameter in
\* parentheses, or by "()" when nothing is bound; binding adds no part of
\* its own. SELECT COUNT() FROM employees with id bound renders as
\* SELECT COUNT(id), newline, FROM employees.
C21_FunctionRendersWithParameter ==
    /\ \A f \in FunctionTypes : extractFunctionName(f) \o "()" = f
    /\ \A i \in 1..Len(blocks) :
          isFunction(blocks[i].type)
             => processBlock(blocks[i])
                   = TextPart(IF blocks[i].params = <<>>
                              THEN blocks[i].type
                              ELSE extractFunctionName(blocks[i].type) \o "("
                                      \o blocks[i].params[1] \o ")")
    /\ Len(collectParts(blocks)) = Len(collectParts(Unbound(blocks)))
    /\ generate(NestingExample) = "SELECT COUNT(id)\nFROM employees"

\* SELECT COUNT() FROM employees on the canvas with salary bound
C21_Witness ==
    /\ Len(blocks) = 4
    /\ blocks[2].type = "COUNT()"
    /\ blocks[2].params = <<"salary">>
    /\ output = "SELECT COUNT(salary)\nFROM employees"

\* a literal block holding value
Literal(type, value) == NewBlock(0, type, value)

\* C23: a number block renders as the value of its field, or as ? when the
\* field is empty; a text block renders as '?' when the field is empty, as
\* the value unchanged when it starts with a single or a double quote, and
\* otherwise as the value between single quotes.
C23_LiteralsRender ==
    /\ \A i \in 1..Len(blocks) :
          /\ blocks[i].type = "number"
                => processBlock(blocks[i])
                      = TextPart(IF blocks[i].input = "" THEN "?"
                                 ELSE blocks[i].input)
          /\ blocks[i].type = "text"
                => processBlock(blocks[i])
                      = TextPart(CASE blocks[i].input = "" -> "'?'"
                                   [] blocks[i].input = "abc" -> "'abc'"
                                   [] blocks[i].input = "'x'" -> "'x'"
                                   [] blocks[i].input = "\"y\"" -> "\"y\"")
    /\ processBlock(Literal("number", "50000")) = TextPart("50000")
    /\ processBlock(Literal("number", "")) = TextPart("?")
    /\ processBlock(Literal("text", "")) = TextPart("'?'")
    /\ processBlock(Literal("text", "abc")) = TextPart("'abc'")

\* the text literal of a condition was edited to a value that starts with
\* a double quote and is displayed unchanged
C23_Witness ==
    /\ Len(blocks) = 8
    /\ blocks[8].type = "text"
    /\ blocks[8].input = "\"y\""
    /\ output = "SELECT salary\nFROM employees\nWHERE salary > \"y\""

\* block i is an item of a select list, a GROUP BY list or an ORDER BY list
\* and the item before it in that list is the block before it, or the block
\* before its sort direction
FollowsListItem(bs, i) ==
    /\ i > 1
    /\ ListItem(bs[i])
    /\ NearestClauseKeyword(Prefix(bs, i)) \in {"SELECT", "GROUP BY", "ORDER BY"}
    /\ \/ ListItem(bs[i - 1])
       \/ i > 2 /\ bs[i - 1].type \in {"ASC", "DESC"} /\ ListItem(bs[i - 2])

\* C27 as claimed: in the parts rendered from the blocks on the canvas, the
\* part of a list item that follows another item of its list, directly or
\* after that item's ASC or DESC, comes directly after a comma part.
C27_ListItemsSeparatedByComma ==
    LET parts == collectParts(blocks)
    IN \A i \in 1..Len(blocks) :
          FollowsListItem(blocks, i) => parts[PartIndex(blocks, i) - 1].comma

\* the contextual categories whose Grammar Table entry lists END
EndContexts == {k \in DOMAIN VALID_CONNECTIONS : "END" \in VALID_CONNECTIONS[k]}

\* C28: the contexts that list END are TABLE, VALUE, GROUP_COLUMN,
\* ORDER_COLUMN, ASC and DESC, and the key NUMBER, which is the category of
\* no block type; a state of the canvas whose context lists END holds a
\* complete query, and every menu type its table entry lists is still
\* accepted there, at least one such type existing.
C28_EndContextsAreComplete ==
    /\ EndContexts \ {"NUMBER"}
          = {"TABLE", "VALUE", "GROUP_COLUMN", "ORDER_COLUMN", "ASC", "DESC"}
    /\ \A type \in MenuTypes : getBlockCategory(type) # "NUMBER"
    /\ getLastBlockCategory(blocks) \in EndContexts
          => /\ isQueryComplete(blocks)
             /\ \A type \in MenuTypes :
                   (type \in Allowed(blocks)
                      \/ getBlockCategory(type) \in Allowed(blocks))
                      => canConnect(blocks, type)
             /\ \E type \in MenuTypes : canConnect(blocks, type)

\* a condition ending in a number literal: the context is VALUE, the query
\* is complete and the run button enabled, and AND is still accepted
C28_Witness ==
    /\ Len(blocks) = 8
    /\ getLastBlockCategory(blocks) = "VALUE"
    /\ blocks[8].type = "number"
    /\ ~runDisabled
    /\ canConnect(blocks, "AND")

\* C30 as claimed: the blocks on the canvas, each accepted at its position,
\* hold the FROM keyword at most once.
C30_FromAtMostOnce ==
    Cardinality({i \in 1..Len(blocks) : blocks[i].type = "FROM"}) <= 1

(***************************************************************************)
(* Properties that relate the Sequence Tracker, the Completeness Checker   *)
(* and the Connection Validator across events.                             *)
(***************************************************************************)
HasTable(bs) == \E i \in 1..Len(bs) : getBlockCategory(bs[i].type) = "TABLE"

\* C31: in every sequence the builder reaches through drops, removals and
\* clears, the query is complete exactly when the sequence holds a block of
\* category TABLE.
C31_CompleteIffTablePresent == isQueryComplete(blocks) <=> HasTable(blocks)

\* a sequence holding a table after a later block was placed and removed
\* again: the counter is ahead of the length
C31_Witness ==
    /\ HasTable(blocks)
    /\ isQueryComplete(blocks)
    /\ blockIdCounter > Len(blocks)

\* the ordered list of block types of a sequence
TypeSeq(bs) == [i \in 1..Len(bs) |-> bs[i].type]

\* C32: canConnect, getLastBlockCategory and isQueryComplete answer for the
\* canvas, whatever parameters are bound and whatever the literal fields
\* hold, what they answer for freshly placed blocks of the same types in the
\* same order; a complete query has the run button enabled.
C32_ResultsDependOnTypesOnly ==
    LET fresh == BlocksOf(TypeSeq(blocks))
    IN /\ getLastBlockCategory(blocks) = getLastBlockCategory(fresh)
       /\ isQueryComplete(blocks) = isQueryComplete(fresh)
       /\ \A type \in MenuTypes \cup {","} :
             canConnect(blocks, type) = canConnect(fresh, type)
       /\ isQueryComplete(blocks) => ~runDisabled

\* a parameter was bound to the function and the field of the number
\* literal is empty: the query is complete and runnable
C32_Witness ==
    /\ \E i \in 1..Len(blocks) : blocks[i].slot = FilledSlot
    /\ \E i \in 1..Len(blocks) :
          blocks[i].type = "number" /\ blocks[i].input = ""
    /\ isQueryComplete(blocks)
    /\ ~runDisabled

\* the step appends one block to the canvas
Placement == Len(blocks') = Len(blocks) + 1

\* the step takes exactly one block off the canvas and is no clear
LastBlockRemoval ==
    /\ Len(blocks') = Len(blocks) - 1
    /\ blockIdCounter' = blockIdCounter

FinishedComparison(bs) ==
    /\ Len(bs) >= 4
    /\ bs[Len(bs) - 3].type = "WHERE"
    /\ getBlockCategory(bs[Len(bs) - 2].type) = "COLUMN"
    /\ getBlockCategory(bs[Len(bs) - 1].type) = "OPERATOR"
    /\ getBlockCategory(bs[Len(bs)].type) \in {"VALUE", "COLUMN"}

AfterComparison == {"AND", "OR", "GROUP BY", "ORDER BY", "LIMIT"}

\* C34 as claimed: after a finished comparison, whether its right-hand
\* operand is a literal or a column, AND, OR, GROUP BY, ORDER BY and LIMIT
\* are accepted.
C34_ConnectorsAfterComparison ==
    FinishedComparison(blocks)
       => \A type \in AfterComparison : canConnect(blocks, type)

(***************************************************************************)
(* Properties of runQuery of the block builder, checked under SpecRun.     *)
(***************************************************************************)
\* the step sends a query to the backend
QuerySent == Len(requests') > Len(requests)

\* C35: a step that sends a query sends exactly one, at a moment when the
\* sequence on the canvas is complete and the displayed text is not the
\* sentinel, and the SQL string it sends is the rendering of that sequence.
C35_SendsOnlyCompleteRenderedQuery ==
    [][QuerySent =>
          /\ isQueryComplete(blocks)
          /\ output # Sentinel
          /\ requests' = Append(requests, generate(blocks))]_vars

\* SELECT * FROM employees was sent and awaits its fetch, and the canvas
\* was cleared since: the run button is still enabled on the sentinel text
C35_Witness ==
    /\ requests # <<>>
    /\ requests[1] = "SELECT *\nFROM employees"
    /\ blocks = <<>>
    /\ output = Sentinel
    /\ ~runDisabled

\* C36 as claimed: a runQuery call that resumes because its fetch rejected
\* shows the notification that the server could not be reached and ends
\* without an uncaught exception.
C36_FetchFailureIsHandled ==
    [][fetchResult' = "rejected" /\ Len(requests') < Len(requests)
          => toast' = ConnectFailedToast /\ ~uncaught']_vars

(***************************************************************************)
(* Properties of the text-editor mode, checked under SpecApp.              *)
(***************************************************************************)
\* C37 as claimed: while the timer of an exit animation is pending the
\* guard isAnimating is true, and no step sends a query to the backend.
C37_NoRequestDuringAnimation ==
    [][/\ timers # <<>> => isAnimating
       /\ issued' > issued => timers = <<>>]_vars

\* C38 as claimed: when no call awaits its response or its animation, the
\* results shown are those of the query sent last, or the empty state that
\* clearResults leaves after a failed query.
C38_LatestQueryShown ==
    (calls = <<>> /\ timers = <<>> /\ issued > 0) => shown \in {issued, 0}

(***************************************************************************)
(* block-builder.js, the monolith: the first SQLBlockBuilder class, with   *)
(* its own tables and its own copies of the core methods.                  *)
(***************************************************************************)
validConnections ==
    ("START" :> {"SELECT"})
    @@ ("SELECT" :> {"DISTINCT", "ALL", "COLUMN", "FUNCTION"})
    @@ ("DISTINCT" :> {"COLUMN", "FUNCTION"})
    @@ ("ALL" :> {"COLUMN", "FUNCTION"})
    @@ ("COLUMN" :> {"COLUMN", "FROM", "COMMA", "FUNCTION"})
    @@ ("FUNCTION" :> {"COLUMN", "FROM", "COMMA", "FUNCTION"})
    @@ ("COMMA" :> {"COLUMN", "FUNCTION"})
    @@ ("FROM" :> {"TABLE"})
    @@ ("TABLE" :> {"WHERE", "JOIN", "GROUP BY", "ORDER BY", "LIMIT", "END"})
    @@ ("JOIN" :> {"TABLE"})
    @@ ("ON" :> {"COLUMN"})
    @@ ("WHERE" :> {"COLUMN", "FUNCTION"})
    @@ ("CONDITION_COLUMN" :> {"OPERATOR"})
    @@ ("OPERATOR" :> {"VALUE", "COLUMN"})
    @@ ("VALUE" :> {"AND", "OR", "GROUP BY", "ORDER BY", "LIMIT", "END"})
    @@ ("AND" :> {"COLUMN"})
    @@ ("OR" :> {"COLUMN"})
    @@ ("GROUP BY" :> {"COLUMN"})
    @@ ("GROUP_COLUMN" :> {"COLUMN", "ORDER BY", "LIMIT", "END", "COMMA"})
    @@ ("ORDER BY" :> {"COLUMN"})
    @@ ("ORDER_COLUMN" :> {"ASC", "DESC", "COLUMN", "LIMIT", "END", "COMMA"})
    @@ ("ASC" :> {"COLUMN", "LIMIT", "END", "COMMA"})
    @@ ("DESC" :> {"COLUMN", "LIMIT", "END", "COMMA"})
    @@ ("LIMIT" :> {"NUMBER"})
    @@ ("NUMBER" :> {"END"})

blockCategories ==
    ("SELECT" :> "SELECT")
    @@ ("DISTINCT" :> "DISTINCT")
    @@ ("FROM" :> "FROM")
    @@ ("WHERE" :> "WHERE")
    @@ ("JOIN" :> "JOIN")
    @@ ("ON" :> "ON")
    @@ ("GROUP BY" :> "GROUP BY")
    @@ ("ORDER BY" :> "ORDER BY")
    @@ ("LIMIT" :> "LIMIT")
    @@ ("AND" :> "AND")
    @@ ("OR" :> "OR")
    @@ ("ASC" :> "ASC")
    @@ ("DESC" :> "DESC")
    @@ ("=" :> "OPERATOR")
    @@ ("!=" :> "OPERATOR")
    @@ (">" :> "OPERATOR")
    @@ ("<" :> "OPERATOR")
    @@ (">=" :> "OPERATOR")
    @@ ("<=" :> "OPERATOR")
    @@ ("LIKE" :> "OPERATOR")
    @@ ("IN" :> "OPERATOR")
    @@ ("COUNT()" :> "FUNCTION")
    @@ ("SUM()" :> "FUNCTION")
    @@ ("AVG()" :> "FUNCTION")
    @@ ("MIN()" :> "FUNCTION")
    @@ ("MAX()" :> "FUNCTION")
    @@ ("employees" :> "TABLE")
    @@ ("departments" :> "TABLE")
    @@ ("*" :> "COLUMN")
    @@ ("id" :> "COLUMN")
    @@ ("name" :> "COLUMN")
    @@ ("department" :> "COLUMN")
    @@ ("salary" :> "COLUMN")
    @@ ("hire_date" :> "COLUMN")
    @@ ("location" :> "COLUMN")
    @@ ("number" :> "VALUE")
    @@ ("text" :> "VALUE")

\* this.blockCategories[type] || 'UNKNOWN'
monolithCategory(type) ==
    IF type \in DOMAIN blockCategories THEN blockCategories[type]
    ELSE "UNKNOWN"

RECURSIVE monolithFindLastKeywordFrom(_, _)
monolithFindLastKeywordFrom(bs, i) ==
    IF i < 1 THEN NullKeyword
    ELSE IF bs[i].type \in {"SELECT", "FROM", "WHERE", "JOIN", "ON",
                            "GROUP BY", "ORDER BY", "LIMIT", "AND", "OR"}
    THEN bs[i].type
    ELSE monolithFindLastKeywordFrom(bs, i - 1)

monolithGetLastBlockCategory(bs) ==
    IF Len(bs) = 0 THEN "START"
    ELSE LET type == bs[Len(bs)].type
             category == monolithCategory(type)
             lastKeyword == monolithFindLastKeywordFrom(bs, Len(bs) - 1)
         IN IF category = "COLUMN" /\ lastKeyword \in {"WHERE", "AND", "OR"}
            THEN "CONDITION_COLUMN"
            ELSE IF category = "COLUMN" /\ lastKeyword = "GROUP BY"
            THEN "GROUP_COLUMN"
            ELSE IF category = "COLUMN" /\ lastKeyword = "ORDER BY"
            THEN "ORDER_COLUMN"
            ELSE category

monolithCanConnect(bs, newBlockType) ==
    LET lastCategory == monolithGetLastBlockCategory(bs)
        newCategory == monolithCategory(newBlockType)
        validNext == IF lastCategory \in DOMAIN validConnections
                     THEN validConnections[lastCategory] ELSE {}
    IN IF newCategory \in validNext THEN TRUE
       ELSE IF newBlockType \in validNext THEN TRUE
       ELSE IF newBlockType = "," \/ newCategory = "COMMA"
       THEN \/ lastCategory = "COLUMN" \/ lastCategory = "FUNCTION"
            \/ lastCategory = "GROUP_COLUMN" \/ lastCategory = "ORDER_COLUMN"
       ELSE FALSE

\* the parts pushed by the forEach of generateSQL for the first n blocks;
\* this.blockCategories[type] is read without a default there
RECURSIVE monolithPartsUpTo(_, _)
monolithPartsUpTo(bs, n) ==
    IF n = 0 THEN <<>>
    ELSE LET blk == bs[n]
             ty == blk.type
             listItem(t) == /\ t \in DOMAIN blockCategories
                            /\ blockCategories[t] \in {"COLUMN", "FUNCTION"}
             autoComma == /\ n > 1
                          /\ listItem(ty)
                          /\ listItem(bs[n - 1].type)
                          /\ bs[n - 1].type # ","
             part ==
                IF ty = "number"
                THEN TextPart(IF blk.input = "" THEN "?" ELSE blk.input)
                ELSE IF ty = "text"
                THEN TextPart(IF blk.input = "" THEN "'?'"
                              ELSE IF blk.input \notin QuotedInputs
                              THEN "'" \o blk.input \o "'"
                              ELSE blk.input)
                ELSE IF ty = "," THEN CommaPart
                ELSE IF ty \in DOMAIN blockCategories
                        /\ blockCategories[ty] = "FUNCTION"
                THEN TextPart(IF Len(blk.params) > 0
                              THEN extractFunctionName(ty) \o "("
                                      \o joinParams(blk.params) \o ")"
                              ELSE extractFunctionName(ty) \o "()")
                ELSE TextPart(ty)
         IN monolithPartsUpTo(bs, n - 1)
               \o (IF autoComma THEN <<CommaPart>> ELSE <<>>)
               \o <<part>>

RECURSIVE monolithFormatUpTo(_, _)
monolithFormatUpTo(parts, n) ==
    IF n = 0 THEN ""
    ELSE LET part == parts[n]
             prevWasComma == n > 1 /\ parts[n - 1].comma
             needsNewLine ==
                part.text \in {"FROM", "WHERE", "JOIN", "ON", "GROUP BY",
                               "ORDER BY", "LIMIT", "AND", "OR"}
             needsSpace == /\ n > 1
                           /\ part.text \notin {"(", ")"}
                           /\ ~(n > 1 /\ ~parts[n - 1].comma
                                  /\ parts[n - 1].text = "(")
                           /\ ~prevWasComma
             piece == IF part.comma THEN part.text
                      ELSE IF needsNewLine /\ n > 1 THEN "\n" \o part.text
                      ELSE IF prevWasComma THEN " " \o part.text
                      ELSE IF needsSpace THEN " " \o part.text
                      ELSE part.text
         IN monolithFormatUpTo(parts, n - 1) \o piece

monolithFormatSQL(parts) ==
    LET sql == monolithFormatUpTo(parts, Len(parts))
    IN IF sql = "" THEN Sentinel ELSE sql

\* variant: the renderer of the second class of the file, which nests the
\* column that follows a function
monolithGenerateSQL_Nesting(bs) == legacyGenerateSQL(bs, {}).text

\* generateSQL: the text written to output.textContent
monolithGenerateSQL(bs) ==
    IF Len(bs) = 0 THEN Sentinel
    ELSE monolithFormatSQL(monolithPartsUpTo(bs, Len(bs)))

monolithIsQueryComplete(bs) ==
    IF Len(bs) = 0 THEN FALSE
    ELSE /\ \E i \in 1..Len(bs) : bs[i].type = "SELECT"
         /\ \E i \in 1..Len(bs) : bs[i].type = "FROM"
         /\ \E i \in 1..Len(bs) : monolithCategory(bs[i].type) = "TABLE"
         /\ \E i \in 1..Len(bs) :
               monolithCategory(bs[i].type) \in {"COLUMN", "FUNCTION"}

\* candidate types of a legality query on the canvas: the vocabulary, the
\* comma, the names only the Grammar Table holds, and an unknown type
CoreCandidates == MenuTypes \cup {",", "ALL", "END", "NUMBER", "COMMA", "bogus"}

\* C39: for the sequence on the canvas, with its bound parameters and its
\* literal values, and for every candidate type, the first class of the
\* monolith and the modular implementation give the same contextual
\* category, the same canConnect decision, the same completeness result
\* and the same SQL text.
C39_MonolithEqualsModular ==
    /\ monolithGetLastBlockCategory(blocks) = getLastBlockCategory(blocks)
    /\ \A type \in CoreCandidates :
          monolithCanConnect(blocks, type) = canConnect(blocks, type)
    /\ monolithIsQueryComplete(blocks) = isQueryComplete(blocks)
    /\ monolithGenerateSQL(blocks) = generate(blocks)

\* a function with a bound parameter and a literal with a typed value:
\* both implementations render the parameter in the parentheses
C39_Witness ==
    /\ monolithGenerateSQL(blocks)
          = "SELECT COUNT(*)\nFROM employees\nWHERE salary > 7"
    /\ generate(blocks) = monolithGenerateSQL(blocks)
    /\ monolithIsQueryComplete(blocks)

====
